---- MODULE Spec2Model ----
(***************************************************************************)
(* Model of the two command-line scripts of RubyRed:                       *)
(*   scripts/create_feature_table.py  (FeatureTableBuilder)                *)
(*   scripts/taxa_fasta.py            (TaxonSplitter)                      *)
(* Strings are sequences of code points, so that strip, split, sort and    *)
(* sanitize are computed character by character as Python computes them.   *)
(***************************************************************************)
EXTENDS Integers, Sequences, FiniteSets, TLC

(* ------------------------------- bounds -------------------------------- *)
MaxLines == 2
MaxLineLen == 3
MaxArgc == 4
MaxTaxLines == 2
MaxTaxLineLen == 4
MaxRecords == 3

(* ---------------------------- code points ------------------------------ *)
TAB == 9
SP == 32
GT == 62
US == 95

\* the characters the inputs are drawn from: ' ', '>', '_', 'a' for the lines of
\* a FASTA file; tab, ';', '_', 'a' for the lines of a taxonomy table; ';', '_',
\* 'a' for the identifiers of FASTA records
FastaChars == {SP, GT, US, 97}
TaxChars == {TAB, 59, US, 97}
IdChars == {59, US, 97}

(* ------------------------- string primitives --------------------------- *)
\* str.isspace for one character
IsSpace(c) == c \in (9..13) \cup (28..32)

\* str.isalnum for one ASCII character
IsAlnum(c) == c \in (48..57) \cup (65..90) \cup (97..122)

RECURSIVE LStrip(_)
LStrip(s) == IF s # <<>> /\ IsSpace(Head(s)) THEN LStrip(Tail(s)) ELSE s

RECURSIVE RStrip(_)
RStrip(s) ==
    IF s # <<>> /\ IsSpace(s[Len(s)]) THEN RStrip(SubSeq(s, 1, Len(s) - 1)) ELSE s

\* str.strip()
Strip(s) == RStrip(LStrip(s))

\* str.startswith(">")
StartsWithGT(s) == s # <<>> /\ Head(s) = GT

\* str.split(sep): the list of fields between occurrences of sep
RECURSIVE Split(_, _)
Split(s, sep) ==
    IF \E i \in 1..Len(s) : s[i] = sep
    THEN LET i == CHOOSE k \in 1..Len(s) :
                      s[k] = sep /\ \A j \in 1..(k - 1) : s[j] # sep
         IN  <<SubSeq(s, 1, i - 1)>> \o Split(SubSeq(s, i + 1, Len(s)), sep)
    ELSE <<s>>

\* Python's < on str: comparison by code point, a proper prefix is smaller
RECURSIVE StrLess(_, _)
StrLess(a, b) ==
    IF b = <<>> THEN FALSE
    ELSE IF a = <<>> THEN TRUE
    ELSE IF Head(a) # Head(b) THEN Head(a) < Head(b)
    ELSE StrLess(Tail(a), Tail(b))

\* sorted(S) for a set of strings
RECURSIVE Sorted(_)
Sorted(S) ==
    IF S = {} THEN <<>>
    ELSE LET m == CHOOSE x \in S : \A y \in S \ {x} : StrLess(x, y)
         IN  <<m>> \o Sorted(S \ {m})

\* all strings over an alphabet up to a length
RECURSIVE StringsOfLen(_, _)
StringsOfLen(A, n) ==
    IF n = 0 THEN {<<>>}
    ELSE {Append(s, c) : s \in StringsOfLen(A, n - 1), c \in A}

StringsUpTo(A, n) == UNION {StringsOfLen(A, k) : k \in 0..n}

Range(s) == {s[i] : i \in 1..Len(s)}

(* ------------------------------ state ---------------------------------- *)
VARIABLES
    ftPc,           \* create_feature_table.py: position in __main__
    ftArgc,         \* number of positional arguments (len(sys.argv) - 1)
    ftInput,        \* lines of the input file consumed so far
    sample_counts,  \* {sample_id: {seq_id: count}}
    ftOutput,       \* the output file: NoFile or [header, rows]
    ftStdout,       \* messages printed
    ftExit,         \* exit code, Running while the process lives
    ftErr           \* the exception that ended the run, or "none"

VARIABLES
    tsPc,             \* taxa_fasta.py: position in the script
    tsArgc,           \* number of positional arguments (len(sys.argv) - 1)
    dirCreated,       \* the output directory was created by this run
    tsTaxCount,       \* taxonomy lines consumed after the header
    feature_to_taxon, \* {feature_id: taxon}
    tsRecords,        \* records of the FASTA file consumed so far
    taxon_to_seqs,    \* insertion-ordered {taxon: [record]}: [order, recs]
    tsWriteIdx,       \* position of the write loop in taxon_to_seqs
    tsFiles,          \* files written by this run: {filename: [record]}
    tsPrinted,        \* the count printed in the summary, Nothing before it
    tsExit,           \* exit code, Running while the process lives
    tsErr             \* the exception that ended the run, or "none"

ftVars == <<ftPc, ftArgc, ftInput, sample_counts, ftOutput, ftStdout, ftExit, ftErr>>

tsVars == <<tsPc, tsArgc, dirCreated, tsTaxCount, feature_to_taxon, tsRecords,
            taxon_to_seqs, tsWriteIdx, tsFiles, tsPrinted, tsExit, tsErr>>

vars == <<ftVars, tsVars>>

NoFile == [absent |-> TRUE]
Running == -1
EmptyMap == [x \in {} |-> 0]

FastaLines == StringsUpTo(FastaChars, MaxLineLen)

(* ---------------------- create_feature_table.py ------------------------ *)
\* line 17: current_seq_id.split("_")[0]
SampleIdOf(seq_id) == Split(seq_id, US)[1]

\* variant: the count is assigned, not incremented (= 1 instead of += 1)
Increment_Overwrite(counts, sample_id, seq_id) ==
    LET inner == IF sample_id \in DOMAIN counts THEN counts[sample_id] ELSE EmptyMap
        inner2 == [k \in (DOMAIN inner) \cup {seq_id} |->
                      IF k = seq_id THEN 1 ELSE inner[k]]
    IN  [s \in (DOMAIN counts) \cup {sample_id} |->
            IF s = sample_id THEN inner2 ELSE counts[s]]

\* line 18: sample_counts[sample_id][current_seq_id] += 1 on nested defaultdicts
Increment(counts, sample_id, seq_id) ==
    LET inner == IF sample_id \in DOMAIN counts THEN counts[sample_id] ELSE EmptyMap
        old   == IF seq_id \in DOMAIN inner THEN inner[seq_id] ELSE 0
        inner2 == [k \in (DOMAIN inner) \cup {seq_id} |->
                      IF k = seq_id THEN old + 1 ELSE inner[k]]
    IN  [s \in (DOMAIN counts) \cup {sample_id} |->
            IF s = sample_id THEN inner2 ELSE counts[s]]

\* variant: the line is not stripped before it is tested and cut
ParseLine_NoStrip(counts, rawline) ==
    IF StartsWithGT(rawline)
    THEN Increment(counts, SampleIdOf(Tail(rawline)), Tail(rawline))
    ELSE counts

\* lines 14-21: the body of the loop over the lines of the file
ParseLine(counts, rawline) ==
    LET line == Strip(rawline)
    IN  IF StartsWithGT(line)
        THEN LET current_seq_id == Tail(line)
                 sample_id == SampleIdOf(current_seq_id)
             IN  Increment(counts, sample_id, current_seq_id)
        ELSE counts

\* line 31: sorted({seq_id for sample in sample_counts.values() for seq_id in sample})
AllFeatures(counts) == Sorted(UNION {DOMAIN counts[s] : s \in DOMAIN counts})

\* lines 35, 39: sorted(sample_counts.keys())
SortedSamples(counts) == Sorted(DOMAIN counts)

\* line 39: [sample_counts[sample].get(feature, 0) for sample in sorted(...)]
RowCounts(counts, feature) ==
    LET ss == SortedSamples(counts)
    IN  [i \in 1..Len(ss) |->
            IF feature \in DOMAIN counts[ss[i]] THEN counts[ss[i]][feature] ELSE 0]

\* lines 26-40: the table as written, one header line and one line per feature
FeatureTable(counts) ==
    LET fs == AllFeatures(counts)
    IN  [header |-> <<"#OTU ID">> \o SortedSamples(counts),
         rows   |-> [i \in 1..Len(fs) |->
                        [label |-> fs[i], counts |-> RowCounts(counts, fs[i])]]]

\* the state before the first statement of the script
FT_Start ==
    /\ ftPc = "start"
    /\ ftInput = <<>>
    /\ sample_counts = EmptyMap
    /\ ftOutput = NoFile
    /\ ftStdout = <<>>
    /\ ftExit = Running
    /\ ftErr = "none"

\* variant: the usage branch exits with code 0
FT_Usage_ExitZero ==
    /\ ftPc = "start"
    /\ ftArgc # 2
    /\ ftStdout' = Append(ftStdout, "usage")
    /\ ftExit' = 0
    /\ ftPc' = "exited"
    /\ UNCHANGED <<ftArgc, ftInput, sample_counts, ftOutput, ftErr>>
    /\ UNCHANGED tsVars

\* lines 44-46: wrong argument count
FT_Usage ==
    /\ ftPc = "start"
    /\ ftArgc # 2
    /\ ftStdout' = Append(ftStdout, "usage")
    /\ ftExit' = 1
    /\ ftPc' = "exited"
    /\ UNCHANGED <<ftArgc, ftInput, sample_counts, ftOutput, ftErr>>
    /\ UNCHANGED tsVars

\* lines 48-52, 12: open(fasta_file, "r") succeeds or raises
FT_OpenInput ==
    /\ ftPc = "start"
    /\ ftArgc = 2
    /\ \E ok \in BOOLEAN :
          IF ok
          THEN /\ ftPc' = "reading"
               /\ UNCHANGED <<ftExit, ftErr>>
          ELSE /\ ftPc' = "exited"
               /\ ftExit' = 1
               /\ ftErr' = "input"
    /\ UNCHANGED <<ftArgc, ftInput, sample_counts, ftOutput, ftStdout>>
    /\ UNCHANGED tsVars

\* lines 13-21: one iteration of the loop over the file
FT_ReadLine ==
    /\ ftPc = "reading"
    /\ Len(ftInput) < MaxLines
    /\ \E rawline \in FastaLines :
          /\ ftInput' = Append(ftInput, rawline)
          /\ sample_counts' = ParseLine(sample_counts, rawline)
    /\ UNCHANGED <<ftPc, ftArgc, ftOutput, ftStdout, ftExit, ftErr>>
    /\ UNCHANGED tsVars

\* line 23: end of file, parse_fasta returns
FT_EndOfFile ==
    /\ ftPc = "reading"
    /\ ftPc' = "parsed"
    /\ UNCHANGED <<ftArgc, ftInput, sample_counts, ftOutput, ftStdout, ftExit, ftErr>>
    /\ UNCHANGED tsVars

\* lines 55, 26-40: write_feature_table; open(output_file, "w") succeeds or raises
FT_WriteFeatureTable ==
    /\ ftPc = "parsed"
    /\ \E ok \in BOOLEAN :
          IF ok
          THEN /\ ftOutput' = FeatureTable(sample_counts)
               /\ ftPc' = "written"
               /\ UNCHANGED <<ftExit, ftErr>>
          ELSE /\ ftPc' = "exited"
               /\ ftExit' = 1
               /\ ftErr' = "output"
               /\ UNCHANGED ftOutput
    /\ UNCHANGED <<ftArgc, ftInput, sample_counts, ftStdout>>
    /\ UNCHANGED tsVars

\* line 57 and the normal end of the script
FT_PrintDone ==
    /\ ftPc = "written"
    /\ ftStdout' = Append(ftStdout, "written")
    /\ ftExit' = 0
    /\ ftPc' = "exited"
    /\ UNCHANGED <<ftArgc, ftInput, sample_counts, ftOutput, ftErr>>
    /\ UNCHANGED tsVars

FT_Next ==
    \/ FT_Usage
    \/ FT_OpenInput
    \/ FT_ReadLine
    \/ FT_EndOfFile
    \/ FT_WriteFeatureTable
    \/ FT_PrintDone

(* --------------------------- taxa_fasta.py ----------------------------- *)
Nothing == -1
None == <<-1>>
EmptyGroups == [order |-> <<>>, recs |-> EmptyMap]
Ext == <<46, 102, 97, 115, 116, 97>>

TaxLines == StringsUpTo(TaxChars, MaxTaxLineLen)
RecordIds == StringsOfLen(IdChars, 1)

\* lines 19-22: the body of the loop over the taxonomy lines
LoadTaxLine(map, line) ==
    LET parts == Split(Strip(line), TAB)
    IN  IF Len(parts) >= 2
        THEN [k \in (DOMAIN map) \cup {parts[1]} |->
                 IF k = parts[1] THEN parts[2] ELSE map[k]]
        ELSE map

\* line 28: feature_to_taxon.get(feature_id)
Get(map, feature_id) == IF feature_id \in DOMAIN map THEN map[feature_id] ELSE None

\* line 29: the truth value of "taxon" (None and "" are false)
Truthy(taxon) == taxon # None /\ taxon # <<>>

\* variant: the record is inserted at the front of its group
AppendRecord_Prepend(groups, taxon, record) ==
    IF taxon \in DOMAIN groups.recs
    THEN [groups EXCEPT !.recs[taxon] = <<record>> \o @]
    ELSE [order |-> Append(groups.order, taxon),
          recs  |-> [t \in (DOMAIN groups.recs) \cup {taxon} |->
                        IF t = taxon THEN <<record>> ELSE groups.recs[t]]]

\* line 30: taxon_to_seqs[taxon].append(record) on a defaultdict(list)
AppendRecord(groups, taxon, record) ==
    IF taxon \in DOMAIN groups.recs
    THEN [groups EXCEPT !.recs[taxon] = Append(@, record)]
    ELSE [order |-> Append(groups.order, taxon),
          recs  |-> [t \in (DOMAIN groups.recs) \cup {taxon} |->
                        IF t = taxon THEN <<record>> ELSE groups.recs[t]]]

\* variant: the record is grouped without the test of line 29
GroupRecord_NoCheck(groups, map, record) ==
    AppendRecord(groups, Get(map, record.id), record)

\* lines 27-30: the body of the loop over the records
GroupRecord(groups, map, record) ==
    LET taxon == Get(map, record.id)
    IN  IF Truthy(taxon) THEN AppendRecord(groups, taxon, record) ELSE groups

\* lines 33-34
sanitize_filename(name) ==
    [i \in 1..Len(name) |->
        IF IsAlnum(name[i]) \/ name[i] \in {46, 95, 45} THEN name[i] ELSE US]

\* line 37
FileName(taxon) == sanitize_filename(taxon) \o Ext

\* variant: the path is opened for appending
WriteFile_Append(files, filename, records) ==
    [f \in (DOMAIN files) \cup {filename} |->
        IF f = filename
        THEN (IF f \in DOMAIN files THEN files[f] ELSE <<>>) \o records
        ELSE files[f]]

\* line 39: SeqIO.write opens the path for writing and replaces its content
WriteFile(files, filename, records) ==
    [f \in (DOMAIN files) \cup {filename} |->
        IF f = filename THEN records ELSE files[f]]

\* line 41: len(taxon_to_seqs)
SummaryCount(groups) == Len(groups.order)

\* the state before the first statement of the script
TS_Start ==
    /\ tsPc = "start"
    /\ dirCreated = FALSE
    /\ tsTaxCount = 0
    /\ feature_to_taxon = EmptyMap
    /\ tsRecords = <<>>
    /\ taxon_to_seqs = EmptyGroups
    /\ tsWriteIdx = 0
    /\ tsFiles = EmptyMap
    /\ tsPrinted = Nothing
    /\ tsExit = Running
    /\ tsErr = "none"

TS_Crash(err) ==
    /\ tsPc' = "exited"
    /\ tsExit' = 1
    /\ tsErr' = err

\* lines 7-9: sys.argv[1..3]; a missing argument raises IndexError
TS_ArgvIndexError ==
    /\ tsPc = "start"
    /\ tsArgc < 3
    /\ TS_Crash("IndexError")
    /\ UNCHANGED <<tsArgc, dirCreated, tsTaxCount, feature_to_taxon, tsRecords,
                   taxon_to_seqs, tsWriteIdx, tsFiles, tsPrinted>>
    /\ UNCHANGED ftVars

\* variant: the directory is made from the second argument, so that two
\* arguments are enough to reach os.makedirs
TS_Makedirs_SecondArgument ==
    /\ tsPc = "start"
    /\ tsArgc >= 2
    /\ \E outcome \in {"created", "existed", "failed"} :
          IF outcome = "failed"
          THEN TS_Crash("makedirs") /\ UNCHANGED dirCreated
          ELSE /\ dirCreated' = (outcome = "created")
               /\ tsPc' = "opentax"
               /\ UNCHANGED <<tsExit, tsErr>>
    /\ UNCHANGED <<tsArgc, tsTaxCount, feature_to_taxon, tsRecords,
                   taxon_to_seqs, tsWriteIdx, tsFiles, tsPrinted>>
    /\ UNCHANGED ftVars

\* line 12: os.makedirs(output_dir, exist_ok=True); the directory may exist already
TS_Makedirs ==
    /\ tsPc = "start"
    /\ tsArgc >= 3
    /\ \E outcome \in {"created", "existed", "failed"} :
          IF outcome = "failed"
          THEN TS_Crash("makedirs") /\ UNCHANGED dirCreated
          ELSE /\ dirCreated' = (outcome = "created")
               /\ tsPc' = "opentax"
               /\ UNCHANGED <<tsExit, tsErr>>
    /\ UNCHANGED <<tsArgc, tsTaxCount, feature_to_taxon, tsRecords,
                   taxon_to_seqs, tsWriteIdx, tsFiles, tsPrinted>>
    /\ UNCHANGED ftVars

\* lines 15-17: open(taxonomy_file) and next(tax_file); a missing file raises
\* OSError, an empty file StopIteration
TS_OpenTaxonomy ==
    /\ tsPc = "opentax"
    /\ \E outcome \in {"ok", "OSError", "StopIteration"} :
          IF outcome = "ok"
          THEN tsPc' = "loadtax" /\ UNCHANGED <<tsExit, tsErr>>
          ELSE TS_Crash(outcome)
    /\ UNCHANGED <<tsArgc, dirCreated, tsTaxCount, feature_to_taxon, tsRecords,
                   taxon_to_seqs, tsWriteIdx, tsFiles, tsPrinted>>
    /\ UNCHANGED ftVars

\* lines 18-22: one iteration of the loop over the taxonomy lines
TS_LoadTaxLine ==
    /\ tsPc = "loadtax"
    /\ tsTaxCount < MaxTaxLines
    /\ \E line \in TaxLines :
          feature_to_taxon' = LoadTaxLine(feature_to_taxon, line)
    /\ tsTaxCount' = tsTaxCount + 1
    /\ UNCHANGED <<tsPc, tsArgc, dirCreated, tsRecords, taxon_to_seqs,
                   tsWriteIdx, tsFiles, tsPrinted, tsExit, tsErr>>
    /\ UNCHANGED ftVars

\* line 18 at end of file, then lines 25-26: the taxonomy file is exhausted and
\* SeqIO.parse starts on the FASTA file
TS_TaxonomyLoaded ==
    /\ tsPc = "loadtax"
    /\ tsPc' = "grouping"
    /\ UNCHANGED <<tsArgc, dirCreated, tsTaxCount, feature_to_taxon, tsRecords,
                   taxon_to_seqs, tsWriteIdx, tsFiles, tsPrinted, tsExit, tsErr>>
    /\ UNCHANGED ftVars

\* lines 26-30: one iteration of the loop over the records
TS_ReadRecord ==
    /\ tsPc = "grouping"
    /\ Len(tsRecords) < MaxRecords
    /\ \E id \in RecordIds :
          LET record == [id |-> id, n |-> Len(tsRecords) + 1]
          IN  /\ tsRecords' = Append(tsRecords, record)
              /\ taxon_to_seqs' = GroupRecord(taxon_to_seqs, feature_to_taxon, record)
    /\ UNCHANGED <<tsPc, tsArgc, dirCreated, tsTaxCount, feature_to_taxon,
                   tsWriteIdx, tsFiles, tsPrinted, tsExit, tsErr>>
    /\ UNCHANGED ftVars

\* line 26: SeqIO.parse cannot open the FASTA file or cannot parse it further
TS_FastaError ==
    /\ tsPc = "grouping"
    /\ TS_Crash("fasta")
    /\ UNCHANGED <<tsArgc, dirCreated, tsTaxCount, feature_to_taxon, tsRecords,
                   taxon_to_seqs, tsWriteIdx, tsFiles, tsPrinted>>
    /\ UNCHANGED ftVars

\* line 26 at end of file: the loop over the records ends, the write loop starts
TS_FastaDone ==
    /\ tsPc = "grouping"
    /\ tsPc' = "writing"
    /\ tsWriteIdx' = 1
    /\ UNCHANGED <<tsArgc, dirCreated, tsTaxCount, feature_to_taxon, tsRecords,
                   taxon_to_seqs, tsFiles, tsPrinted, tsExit, tsErr>>
    /\ UNCHANGED ftVars

\* variant: a failed write is skipped and the loop goes on
TS_WriteTaxon_SkipFailed ==
    /\ tsPc = "writing"
    /\ tsWriteIdx <= Len(taxon_to_seqs.order)
    /\ LET taxon == taxon_to_seqs.order[tsWriteIdx]
           records == taxon_to_seqs.recs[taxon]
       IN  \E ok \in BOOLEAN :
              /\ tsFiles' = IF ok THEN WriteFile(tsFiles, FileName(taxon), records)
                                  ELSE tsFiles
              /\ tsWriteIdx' = tsWriteIdx + 1
    /\ UNCHANGED <<tsPc, tsExit, tsErr, tsArgc, dirCreated, tsTaxCount,
                   feature_to_taxon, tsRecords, taxon_to_seqs, tsPrinted>>
    /\ UNCHANGED ftVars

\* lines 36-39: one iteration of the write loop; SeqIO.write replaces the file,
\* or raises because the path cannot be opened for writing
TS_WriteTaxon ==
    /\ tsPc = "writing"
    /\ tsWriteIdx <= Len(taxon_to_seqs.order)
    /\ LET taxon == taxon_to_seqs.order[tsWriteIdx]
           records == taxon_to_seqs.recs[taxon]
       IN  \E ok \in BOOLEAN :
              IF ok
              THEN /\ tsFiles' = WriteFile(tsFiles, FileName(taxon), records)
                   /\ tsWriteIdx' = tsWriteIdx + 1
                   /\ UNCHANGED <<tsPc, tsExit, tsErr>>
              ELSE /\ TS_Crash("write")
                   /\ UNCHANGED <<tsFiles, tsWriteIdx>>
    /\ UNCHANGED <<tsArgc, dirCreated, tsTaxCount, feature_to_taxon, tsRecords,
                   taxon_to_seqs, tsPrinted>>
    /\ UNCHANGED ftVars

\* line 41 and the normal end of the script
TS_PrintSummary ==
    /\ tsPc = "writing"
    /\ tsWriteIdx > Len(taxon_to_seqs.order)
    /\ tsPrinted' = SummaryCount(taxon_to_seqs)
    /\ tsExit' = 0
    /\ tsPc' = "exited"
    /\ UNCHANGED <<tsArgc, dirCreated, tsTaxCount, feature_to_taxon, tsRecords,
                   taxon_to_seqs, tsWriteIdx, tsFiles, tsErr>>
    /\ UNCHANGED ftVars

TS_Next ==
    \/ TS_ArgvIndexError
    \/ TS_Makedirs
    \/ TS_OpenTaxonomy
    \/ TS_LoadTaxLine
    \/ TS_TaxonomyLoaded
    \/ TS_ReadRecord
    \/ TS_FastaError
    \/ TS_FastaDone
    \/ TS_WriteTaxon
    \/ TS_PrintSummary

(* --------------------------- specifications ---------------------------- *)
\* each script is its own process; one specification per script, in which the
\* other script is not started
InitFTB == ftArgc \in 0..MaxArgc /\ FT_Start /\ tsArgc = 0 /\ TS_Start

InitTS == tsArgc \in 0..MaxArgc /\ TS_Start /\ ftArgc = 0 /\ FT_Start

SpecFTB == InitFTB /\ [][FT_Next]_vars

SpecTS == InitTS /\ [][TS_Next]_vars

(* ------------------- vocabulary of the properties ---------------------- *)
AllSpace(s) == \A i \in 1..Len(s) : IsSpace(s[i])

\* the identifiers a line carries as a header: the line is whitespace, '>',
\* the identifier, whitespace, and the identifier does not end in whitespace
\* (a set of at most one element; empty for a line that is no header)
HeaderIdents(line) ==
    {SubSeq(line, p[1] + 1, p[2]) :
        p \in {q \in (1..Len(line)) \X (0..Len(line)) :
                 /\ q[1] <= q[2]
                 /\ line[q[1]] = GT
                 /\ AllSpace(SubSeq(line, 1, q[1] - 1))
                 /\ AllSpace(SubSeq(line, q[2] + 1, Len(line)))
                 /\ (q[2] > q[1] => ~IsSpace(line[q[2]]))}}

InputIdents == UNION {HeaderIdents(ftInput[k]) : k \in 1..Len(ftInput)}

Occurrences(ident) == Cardinality({k \in 1..Len(ftInput) : ident \in HeaderIdents(ftInput[k])})

\* the prefix before the first '_', the whole identifier without '_'
PrefixBeforeUnderscore(ident) ==
    IF \E k \in 1..Len(ident) : ident[k] = US
    THEN LET k == CHOOSE j \in 1..Len(ident) :
                      ident[j] = US /\ \A i \in 1..(j - 1) : ident[i] # US
         IN  SubSeq(ident, 1, k - 1)
    ELSE ident

\* a strictly precedes b in lexical order
LexBefore(a, b) ==
    \E k \in 1..Len(b) :
        /\ k <= Len(a) + 1
        /\ \A j \in 1..(k - 1) : a[j] = b[j]
        /\ (k = Len(a) + 1 \/ a[k] < b[k])

Ascending(seq) == \A i, j \in 1..Len(seq) : i < j => LexBefore(seq[i], seq[j])

RECURSIVE SumSeq(_)
SumSeq(s) == IF s = <<>> THEN 0 ELSE Head(s) + SumSeq(Tail(s))

TableWritten == ftOutput # NoFile

RowLabels == [i \in 1..Len(ftOutput.rows) |-> ftOutput.rows[i].label]

SampleColumns == Tail(ftOutput.header)

C2_RowSums ==
    TableWritten =>
        \A i \in 1..Len(ftOutput.rows) :
            SumSeq(ftOutput.rows[i].counts) = Occurrences(ftOutput.rows[i].label)

C2_Witness ==
    /\ TableWritten
    /\ \E i \in 1..Len(ftOutput.rows) :
          /\ SumSeq(ftOutput.rows[i].counts) = 2
          /\ Len(ftOutput.rows[i].counts) = 1

(* ------------------------------- C5 ------------------------------------ *)
FT_UsageExit ==
    /\ ftArgc # 2 => ftPc \in {"start", "exited"} /\ ftInput = <<>> /\ ~TableWritten
    /\ (ftArgc # 2 /\ ftPc = "exited") => ftStdout = <<"usage">> /\ ftExit = 1

FT_Success == TableWritten /\ ftStdout = <<"written">> /\ ftExit = 0

\* C5 as stated: any argument count other than 2 prints the usage string once
\* and exits 1 before the input is read or the output created; with 2 arguments
\* and a readable input the run writes the output, prints the completion
\* message and exits 0.
C5_AsStated ==
    /\ FT_UsageExit
    /\ (ftArgc = 2 /\ ftPc = "exited" /\ ftErr # "input") => FT_Success

\* C5 amended: as stated, for a readable input and an output path that can be
\* opened for writing; when the output cannot be opened the run ends with exit
\* code 1, no completion message and no table.
C5_UsageOrSuccess ==
    /\ FT_UsageExit
    /\ (ftArgc = 2 /\ ftPc = "exited" /\ ftErr = "none") => FT_Success
    /\ (ftPc = "exited" /\ ftErr = "output") =>
            ftExit = 1 /\ ftStdout = <<>> /\ ~TableWritten

C5_Witness ==
    /\ ftArgc = 2
    /\ ftPc = "exited"
    /\ ftErr = "none"
    /\ TableWritten
    /\ Len(ftInput) > 0

(* ------------------ vocabulary of the TaxonSplitter properties --------- *)
\* name is label with every character other than a letter, a digit, '.', '_'
\* and '-' replaced by '_'
SanitizedChar(c) ==
    IF c \in (48..57) \cup (65..90) \cup (97..122) \cup {45, 46, 95} THEN c ELSE 95

SanitizesTo(label, name) ==
    /\ Len(name) = Len(label)
    /\ \A i \in 1..Len(label) : name[i] = SanitizedChar(label[i])

\* f is the file "<name>.fasta" of label
IsFileOf(f, label) ==
    /\ Len(f) = Len(label) + Len(Ext)
    /\ SubSeq(f, Len(label) + 1, Len(f)) = Ext
    /\ SanitizesTo(label, SubSeq(f, 1, Len(label)))

HasTaxonomyEntry(id) == id \in DOMAIN feature_to_taxon

\* the input records, in input order, whose identifier the taxonomy maps to label
RecordsOf(label) ==
    LET Belongs(r) == HasTaxonomyEntry(r.id) /\ feature_to_taxon[r.id] = label
    IN  SelectSeq(tsRecords, Belongs)

\* the labels that own at least one input record
GroupLabels == {t \in DOMAIN taxon_to_seqs.recs : RecordsOf(t) # <<>>}

\* position in the FASTA input of the first record of a label
FirstPos(label) == Head(RecordsOf(label)).n

TS_Succeeded == tsPc = "exited" /\ tsExit = 0

NoOutputs == ~dirCreated /\ tsFiles = EmptyMap

(* ------------------------------- C3 ------------------------------------ *)
\* C3: after a successful run every record of an output file "<name>.fasta" has
\* an identifier that is a key of the taxonomy map and whose taxon label
\* sanitizes to <name>; no record without taxonomy entry is in any file.
C3_FilesHoldOnlyMappedRecords ==
    TS_Succeeded =>
        \A f \in DOMAIN tsFiles : \A i \in 1..Len(tsFiles[f]) :
            /\ HasTaxonomyEntry(tsFiles[f][i].id)
            /\ IsFileOf(f, feature_to_taxon[tsFiles[f][i].id])

C3_Witness ==
    /\ TS_Succeeded
    /\ tsFiles # EmptyMap
    /\ \E k \in 1..Len(tsRecords) : ~HasTaxonomyEntry(tsRecords[k].id)
    /\ \E f \in DOMAIN tsFiles : SubSeq(f, 1, Len(f) - Len(Ext)) = <<US, 97>>

(* ------------------------------- C4 ------------------------------------ *)
\* C4: every record read whose identifier is a key of the taxonomy map is in the
\* group of the label mapped to it; only records whose identifier is absent from
\* the map are in no group.
C4_MappedRecordsAreGrouped ==
    \A k \in 1..Len(tsRecords) :
        HasTaxonomyEntry(tsRecords[k].id) =>
            /\ feature_to_taxon[tsRecords[k].id] \in DOMAIN taxon_to_seqs.recs
            /\ tsRecords[k] \in Range(taxon_to_seqs.recs[feature_to_taxon[tsRecords[k].id]])

(* ------------------------------- C6 ------------------------------------ *)
TS_NoProcessing ==
    /\ tsPc \in {"start", "exited"}
    /\ NoOutputs
    /\ tsPc = "exited" => tsExit = 1 /\ tsErr = "IndexError"

\* C6 as stated: with fewer and with more than three arguments the run ends
\* with an error and does no processing.
C6_AsStated == tsArgc # 3 => TS_NoProcessing

\* C6 amended: with fewer than three arguments the run ends with an error
\* (IndexError) before any processing; arguments beyond the third are ignored
\* and the run proceeds as with three.
C6_TooFewArguments ==
    /\ tsArgc < 3 => TS_NoProcessing
    /\ tsArgc >= 3 => tsErr # "IndexError"
    /\ tsArgc >= 3 /\ tsPc = "exited" /\ tsErr = "none" => tsExit = 0

C6_Witness == tsArgc < 3 /\ tsPc = "exited" /\ tsErr = "IndexError"

(* ------------------------------- C7 ------------------------------------ *)
\* C7: the number in the completion message is the number of distinct files
\* the run wrote, also when distinct labels sanitize to the same filename.
C7_CountIsFilesWritten ==
    tsPrinted # Nothing => tsPrinted = Cardinality(DOMAIN tsFiles)

(* ------------------------------- C8 ------------------------------------ *)
IOErrors == {"OSError", "fasta", "write"}

\* C8 as stated: a run that aborts on an I/O error has created no output
\* directory and written no taxon file.
C8_AsStated == (tsPc = "exited" /\ tsErr \in IOErrors) => NoOutputs

\* C8 amended: a run that aborts because the taxonomy or the FASTA file cannot
\* be opened or parsed has written no taxon file (the output directory may
\* already have been created); a run that aborts because a taxon file cannot be
\* opened for writing leaves the files of the groups written before it, and no
\* others; the completion message is printed only by a run without error, and
\* then every group's file has been written.
C8_AbortLeavesPartialOutput ==
    /\ (tsPc = "exited" /\ tsErr \in {"OSError", "StopIteration", "fasta"}) =>
            tsFiles = EmptyMap
    /\ (tsPc = "exited" /\ tsErr = "write") =>
            /\ tsWriteIdx <= Len(taxon_to_seqs.order)
            /\ \A f \in DOMAIN tsFiles :
                  \E i \in 1..(tsWriteIdx - 1) : IsFileOf(f, taxon_to_seqs.order[i])
            /\ \A i \in 1..(tsWriteIdx - 1) :
                  \E f \in DOMAIN tsFiles : IsFileOf(f, taxon_to_seqs.order[i])
    /\ tsErr # "none" => tsPrinted = Nothing
    /\ tsPrinted # Nothing =>
            \A t \in GroupLabels : \E f \in DOMAIN tsFiles : IsFileOf(f, t)

C8_Witness ==
    /\ tsPc = "exited"
    /\ tsErr = "write"
    /\ dirCreated
    /\ tsFiles # EmptyMap

(* ------------------------------- C9 ------------------------------------ *)
\* two labels with the same sanitized name
SameFileName(t1, t2) ==
    /\ Len(t1) = Len(t2)
    /\ \A i \in 1..Len(t1) : SanitizedChar(t1[i]) = SanitizedChar(t2[i])

\* t is, among the labels sharing its filename, the one whose first record
\* comes last in the FASTA input
ProcessedLast(t) ==
    \A t3 \in GroupLabels : SameFileName(t3, t) => FirstPos(t3) <= FirstPos(t)

\* C9: when two distinct labels of the groups sanitize to the same filename,
\* after the run that file holds exactly the records of the group processed
\* later (the one whose label first occurs later in the FASTA input) and none
\* of the records of the earlier group.
C9_LaterGroupOverwrites ==
    TS_Succeeded =>
        \A t1, t2 \in GroupLabels :
            (t1 # t2 /\ SameFileName(t1, t2) /\ FirstPos(t1) < FirstPos(t2)
                /\ ProcessedLast(t2))
            => \E f \in DOMAIN tsFiles :
                  /\ IsFileOf(f, t1)
                  /\ IsFileOf(f, t2)
                  /\ tsFiles[f] = RecordsOf(t2)
                  /\ \A i \in 1..Len(tsFiles[f]) :
                        tsFiles[f][i] \notin Range(RecordsOf(t1))

C9_Witness ==
    /\ TS_Succeeded
    /\ \E t1, t2 \in GroupLabels :
          t1 # t2 /\ SameFileName(t1, t2) /\ FirstPos(t1) < FirstPos(t2)

(* ------------------------------- C10 ----------------------------------- *)
FilesInInputOrder ==
    \A f \in DOMAIN tsFiles :
        /\ \A i \in 1..Len(tsFiles[f]) :
              /\ tsFiles[f][i].n \in 1..Len(tsRecords)
              /\ tsFiles[f][i] = tsRecords[tsFiles[f][i].n]
        /\ \A i, j \in 1..Len(tsFiles[f]) : i < j => tsFiles[f][i].n < tsFiles[f][j].n
        /\ \E t \in GroupLabels : tsFiles[f] = RecordsOf(t)

\* C10: every output file holds, in input order, exactly the input records of
\* one taxon group, each occurrence once; and the taxonomy map no longer
\* changes once the first FASTA record has been read.
C10_InputOrderKept ==
    /\ [](FilesInInputOrder)
    /\ [][tsRecords' # <<>> => feature_to_taxon' = feature_to_taxon]_vars

C10_Witness ==
    /\ TS_Succeeded
    /\ \E f \in DOMAIN tsFiles :
          /\ Len(tsFiles[f]) = 2
          /\ tsFiles[f][1].id = tsFiles[f][2].id

====
